---- MODULE Spec2Model ----
(***************************************************************************)
(* Model of the SIP back-test of src/backtest_enhanced_sip.py:             *)
(* get_historical_data, calculate_enhanced_multiplier, simulate_sip,       *)
(* calculate_rolling_returns and compare_strategies.                       *)
(*                                                                         *)
(* Numbers.  The program computes in binary floating point; the model      *)
(* computes in exact rational arithmetic.  A number is a pair <<n, d>>     *)
(* with d > 0 and gcd(n, d) = 1.  A pair with d = 0 is a non-finite value: *)
(* <<0, 0>> is NaN (pandas' missing value, and numpy's 0/0), <<1, 0>> and  *)
(* <<-1, 0>> are the infinities numpy gives for x/0.                       *)
(*                                                                         *)
(* Dates.  A parsed date (pandas Timestamp) is <<year, month, day>>; a     *)
(* monthly period (Period 'M') is <<year, month>>.  A raw date string      *)
(* "DD-MM-YYYY" is the triple of its fields <<DD, MM, YYYY>>.              *)
(***************************************************************************)
EXTENDS Integers, Sequences, FiniteSets, TLC

----------------------------------------------------------------------------
(* Exact rational arithmetic standing for Python / numpy float arithmetic. *)

Abs(x) == IF x < 0 THEN -x ELSE x

Sgn(x) == IF x < 0 THEN -1 ELSE IF x > 0 THEN 1 ELSE 0

RECURSIVE GCD(_, _)
GCD(a, b) == IF b = 0 THEN Abs(a) ELSE GCD(b, a % Abs(b))

Norm(n, d) ==
    LET g == GCD(n, d)
    IN  IF d < 0 THEN <<(-n) \div g, (-d) \div g>> ELSE <<n \div g, d \div g>>

Q(n) == <<n, 1>>

NaN == <<0, 0>>

Zero == <<0, 1>>

IsFinite(x) == x[2] # 0

\* pd.notna
NotNa(x) == x # NaN

RNeg(x) == <<-x[1], x[2]>>

RAdd(x, y) ==
    IF ~IsFinite(x) \/ ~IsFinite(y) THEN NaN
    ELSE LET g == GCD(x[2], y[2])
         IN  Norm(x[1] * (y[2] \div g) + y[1] * (x[2] \div g), (x[2] \div g) * y[2])

RSub(x, y) == RAdd(x, RNeg(y))

RMul(x, y) ==
    IF ~IsFinite(x) \/ ~IsFinite(y) THEN NaN
    ELSE LET g1 == GCD(x[1], y[2])
             g2 == GCD(y[1], x[2])
         IN  IF x[1] = 0 \/ y[1] = 0 THEN Zero
             ELSE Norm((x[1] \div g1) * (y[1] \div g2), (x[2] \div g2) * (y[2] \div g1))

\* numpy division: a zero divisor gives NaN (0/0) or an infinity, never a raise
RDiv(x, y) ==
    IF ~IsFinite(x) \/ ~IsFinite(y) THEN NaN
    ELSE IF y[1] = 0 THEN <<Sgn(x[1]), 0>>
    ELSE RMul(x, Norm(y[2], y[1]))

\* float comparisons: any comparison with a non-finite operand of the model is False
RLe(x, y) == IsFinite(x) /\ IsFinite(y) /\ x[1] * y[2] <= y[1] * x[2]

RLt(x, y) == IsFinite(x) /\ IsFinite(y) /\ x[1] * y[2] < y[1] * x[2]

RGt(x, y) == RLt(y, x)

RECURSIVE Pow10(_)
Pow10(k) == IF k = 0 THEN 1 ELSE 10 * Pow10(k - 1)

\* round(x, k): to k decimals, ties to the even neighbour; NaN stays NaN
Round(x, k) ==
    IF ~IsFinite(x) THEN x
    ELSE LET s   == Pow10(k)
             ip  == x[1] \div x[2]
             r   == x[1] % x[2]
             f   == (r * s) \div x[2]
             rem == (r * s) % x[2]
             lo  == ip * s + f
             up  == IF 2 * rem > x[2] \/ (2 * rem = x[2] /\ lo % 2 = 1) THEN 1 ELSE 0
         IN  Norm(lo + up, s)

RECURSIVE RSum(_)
RSum(s) == IF s = <<>> THEN Zero ELSE RAdd(Head(s), RSum(Tail(s)))

\* Python's sum() / the += accumulation starting from the int 0, left to right
RECURSIVE RSumLeft(_, _)
RSumLeft(acc, s) == IF s = <<>> THEN acc ELSE RSumLeft(RAdd(acc, Head(s)), Tail(s))

----------------------------------------------------------------------------
(* Calendar: pandas Timestamp / Period arithmetic.                         *)

IsLeap(y) == (y % 4 = 0 /\ y % 100 # 0) \/ y % 400 = 0

DaysInMonth(m, y) ==
    IF m = 2 THEN (IF IsLeap(y) THEN 29 ELSE 28)
    ELSE IF m \in {4, 6, 9, 11} THEN 30 ELSE 31

RECURSIVE DaysBeforeMonth(_, _)
DaysBeforeMonth(m, y) ==
    IF m <= 1 THEN 0 ELSE DaysBeforeMonth(m - 1, y) + DaysInMonth(m - 1, y)

\* proleptic Gregorian day number of a Timestamp <<y, m, d>>
Ordinal(t) ==
    LET y == t[1] - 1
    IN  365 * y + (y \div 4) - (y \div 100) + (y \div 400)
        + DaysBeforeMonth(t[2], t[1]) + t[3]

\* (b - a).days
DaysBetween(a, b) == Ordinal(b) - Ordinal(a)

DateLt(a, b) ==
    \/ a[1] < b[1]
    \/ a[1] = b[1] /\ a[2] < b[2]
    \/ a[1] = b[1] /\ a[2] = b[2] /\ a[3] < b[3]

\* Timestamp.to_period('M')
ToPeriod(t) == <<t[1], t[2]>>

PeriodLt(p, q) == p[1] < q[1] \/ (p[1] = q[1] /\ p[2] < q[2])

----------------------------------------------------------------------------
(* get_historical_data: parsing, sorting and the derived columns.          *)

\* pd.to_datetime(format='%d-%m-%Y') accepts the string <<DD, MM, YYYY>>
ValidDateString(s) ==
    /\ s[2] \in 1..12
    /\ s[3] \in 1..9999
    /\ s[1] \in 1..DaysInMonth(s[2], s[3])

ToDatetime(s) == <<s[3], s[2], s[1]>>

\* the raw NAV strings of the model and the numbers they spell
NumericStrings == {"97", "100", "103", "240", "243", "250"}

NumericValue(s) ==
    CASE s = "97"  -> Q(97)
      [] s = "100" -> Q(100)
      [] s = "103" -> Q(103)
      [] s = "240" -> Q(240)
      [] s = "243" -> Q(243)
      [] s = "250" -> Q(250)

\* pd.to_numeric accepts the string
ValidNumericString(s) == s \in NumericStrings

\* df.sort_values('date'): pandas sorts with numpy's default (quicksort) kind,
\* which does not promise the order of rows with equal dates.  The order is a
\* fixed property of the platform's sort: "stable" keeps equal dates in input
\* order, "reverse" puts a later row before the earlier rows of the same date.
SortKinds == {"stable", "reverse"}

RECURSIVE InsertByDate(_, _, _)
InsertByDate(sorted, row, kind) ==
    IF sorted = <<>> THEN <<row>>
    ELSE IF \/ DateLt(row.date, Head(sorted).date)
            \/ (kind = "reverse" /\ row.date = Head(sorted).date)
         THEN <<row>> \o sorted
         ELSE <<Head(sorted)>> \o InsertByDate(Tail(sorted), row, kind)

RECURSIVE SortByDateFrom(_, _, _)
SortByDateFrom(sorted, rest, kind) ==
    IF rest = <<>> THEN sorted
    ELSE SortByDateFrom(InsertByDate(sorted, Head(rest), kind), Tail(rest), kind)

SortByDate(rows, kind) == SortByDateFrom(<<>>, rows, kind)

\* df['nav'].pct_change() * 100 at (1-based) row i
PctChange(rows, i) ==
    IF i = 1 THEN NaN
    ELSE RMul(RSub(RDiv(rows[i].nav, rows[i - 1].nav), Q(1)), Q(100))

\* df['nav'].rolling(window=w).mean() at row i
RollingMean(rows, i, w) ==
    IF i < w THEN NaN
    ELSE RDiv(RSum([k \in 1..w |-> rows[i - w + k].nav]), Q(w))

\* lines 36-45: the prepared frame of a non-empty, well-formed history
PrepareFrame(hist, kind) ==
    LET parsed == [k \in 1..Len(hist) |->
                     [date |-> ToDatetime(hist[k].date),
                      nav  |-> NumericValue(hist[k].nav)]]
        sorted == SortByDate(parsed, kind)
    IN  [k \in 1..Len(sorted) |->
           [date       |-> sorted[k].date,
            nav        |-> sorted[k].nav,
            nav_change |-> PctChange(sorted, k),
            nav_ma_30  |-> RollingMean(sorted, k, 30)]]

\* pd.DataFrame(): the empty frame returned for an empty history
EmptyFrame == <<>>

\* to_datetime / to_numeric raise ValueError on a string they cannot parse
HistoryParses(hist) ==
    \A k \in 1..Len(hist) :
        ValidDateString(hist[k].date) /\ ValidNumericString(hist[k].nav)

----------------------------------------------------------------------------
(* calculate_enhanced_multiplier                                           *)

\* faulty variant: the two price-ratio rows are tried before the change rows
calculate_enhanced_multiplier_ratio_first(current_nav, previous_nav, nav_change) ==
    IF RLt(current_nav, RMul(previous_nav, Norm(98, 100))) THEN Norm(115, 100)
    ELSE IF RGt(current_nav, RMul(previous_nav, Norm(102, 100))) THEN Norm(85, 100)
    ELSE IF RLe(nav_change, Q(-3)) THEN Q(2)
    ELSE IF RLe(nav_change, Q(-2)) THEN Norm(3, 2)
    ELSE IF RLe(nav_change, Q(-1)) THEN Norm(5, 4)
    ELSE Q(1)

calculate_enhanced_multiplier(current_nav, previous_nav, nav_change) ==
    IF RLe(nav_change, Q(-3)) THEN Q(2)
    ELSE IF RLe(nav_change, Q(-2)) THEN Norm(3, 2)
    ELSE IF RLe(nav_change, Q(-1)) THEN Norm(5, 4)
    ELSE IF RLt(current_nav, RMul(previous_nav, Norm(98, 100))) THEN Norm(115, 100)
    ELSE IF RGt(current_nav, RMul(previous_nav, Norm(102, 100))) THEN Norm(85, 100)
    ELSE Q(1)

----------------------------------------------------------------------------
(* simulate_sip                                                            *)

\* faulty variant: no copy, the column is added to the frame of the caller
SimulateFramesInPlace(frame) ==
    LET withColumn == [k \in 1..Len(frame) |->
                         [date       |-> frame[k].date,
                          nav        |-> frame[k].nav,
                          nav_change |-> frame[k].nav_change,
                          nav_ma_30  |-> frame[k].nav_ma_30,
                          year_month |-> ToPeriod(frame[k].date)]]
    IN  [local |-> withColumn, caller |-> withColumn]

\* lines 91-92: df = df.copy(); df['year_month'] = ...  The local frame gets the
\* new column; the frame of the caller is left as it was.
SimulateFrames(frame) ==
    [local  |-> [k \in 1..Len(frame) |->
                   [date       |-> frame[k].date,
                    nav        |-> frame[k].nav,
                    nav_change |-> frame[k].nav_change,
                    nav_ma_30  |-> frame[k].nav_ma_30,
                    year_month |-> ToPeriod(frame[k].date)]],
     caller |-> frame]

\* faulty variant: grouping by the month alone, whatever the year
PeriodOfMonthOnly(row) == <<0, row.year_month[2]>>

\* the period of a row: the year_month column
PeriodOf(row) == row.year_month

\* df.groupby('year_month'): the distinct periods, ascending
RECURSIVE SortedPeriods(_)
SortedPeriods(ps) ==
    IF ps = {} THEN <<>>
    ELSE LET p == CHOOSE x \in ps : \A y \in ps : ~PeriodLt(y, x)
         IN  <<p>> \o SortedPeriods(ps \ {p})

\* faulty variant: the groups are visited latest period first
GroupKeysDescending(frame) ==
    LET asc == SortedPeriods({PeriodOf(frame[k]) : k \in 1..Len(frame)})
    IN  [k \in 1..Len(asc) |-> asc[Len(asc) + 1 - k]]

GroupKeys(frame) == SortedPeriods({PeriodOf(frame[k]) : k \in 1..Len(frame)})

\* the rows of one group, in frame order
GroupRows(frame, period) == SelectSeq(frame, LAMBDA r : PeriodOf(r) = period)

\* lines 101-107: month_data = group.sort_values('date'); month_data.iloc[0]
InvestRow(frame, period, kind) == SortByDate(GroupRows(frame, period), kind)[1]

\* faulty variant: the multiplier is applied whatever the strategy
InvestmentAmountAnyStrategy(invest_row, base, strat) ==
    LET multiplier ==
          IF NotNa(invest_row.nav_change)
          THEN LET prev_nav == RDiv(invest_row.nav,
                                    RAdd(Q(1), RDiv(invest_row.nav_change, Q(100))))
               IN  calculate_enhanced_multiplier(invest_row.nav, prev_nav,
                                                 invest_row.nav_change)
          ELSE Q(1)
    IN  RMul(Q(base), multiplier)

\* faulty variant: the previous price is rebuilt by multiplying, nav * (1 + change/100)
InvestmentAmountPrevMultiplied(invest_row, base, strat) ==
    IF strat = "enhanced"
    THEN LET multiplier ==
               IF NotNa(invest_row.nav_change)
               THEN LET prev_nav == RMul(invest_row.nav,
                                         RAdd(Q(1), RDiv(invest_row.nav_change, Q(100))))
                    IN  calculate_enhanced_multiplier(invest_row.nav, prev_nav,
                                                      invest_row.nav_change)
               ELSE Q(1)
         IN  RMul(Q(base), multiplier)
    ELSE Q(base)

\* lines 109-123: the amount invested at invest_row
InvestmentAmount(invest_row, base, strat) ==
    IF strat = "enhanced"
    THEN LET multiplier ==
               IF NotNa(invest_row.nav_change)
               THEN LET prev_nav == RDiv(invest_row.nav,
                                         RAdd(Q(1), RDiv(invest_row.nav_change, Q(100))))
                    IN  calculate_enhanced_multiplier(invest_row.nav, prev_nav,
                                                      invest_row.nav_change)
               ELSE Q(1)
         IN  RMul(Q(base), multiplier)
    ELSE Q(base)

\* lines 126-139: the ledger entry, given the running totals before it
Investment(invest_row, base, strat, tot_units, tot_invested) ==
    LET investment_amount == InvestmentAmount(invest_row, base, strat)
        units             == RDiv(investment_amount, invest_row.nav)
    IN  [date           |-> invest_row.date,
         nav            |-> invest_row.nav,
         nav_change     |-> invest_row.nav_change,
         amount         |-> investment_amount,
         units          |-> units,
         total_units    |-> RAdd(tot_units, units),
         total_invested |-> RAdd(tot_invested, investment_amount)]

\* faulty variant: the price of the last contribution instead of the last point
FinalNavOfLastContribution(frame) ==
    LET keys == GroupKeys(frame)
    IN  GroupRows(frame, keys[Len(keys)])[1].nav

\* line 142: final_nav = df.iloc[-1]['nav']
FinalNav(frame) == frame[Len(frame)].nav

\* line 148: years = (last date - first date).days / 365.25
Years(frame) == RDiv(Q(DaysBetween(frame[1].date, frame[Len(frame)].date)), Norm(36525, 100))

\* line 145
ReturnPercent(absolute_return, tot_invested) ==
    IF RGt(tot_invested, Zero)
    THEN RMul(RDiv(absolute_return, tot_invested), Q(100))
    ELSE Zero

\* line 149 and round(cagr, 2).  x ** (1/years) is not rational: a defined CAGR
\* is kept as the triple <<n, d, days>> of its operands, final_value /
\* total_invested = n/d and the elapsed days.  The quotient is taken before the
\* power: with total_invested = 0 it is 0/0 and the CAGR is NaN.
Cagr(final_value, tot_invested, frame) ==
    IF RGt(Years(frame), Zero)
    THEN LET ratio == RDiv(final_value, tot_invested)
         IN  IF IsFinite(ratio)
             THEN <<ratio[1], ratio[2], DaysBetween(frame[1].date, frame[Len(frame)].date)>>
             ELSE NaN
    ELSE Zero

\* faulty variant: total_units reported with 2 decimals instead of 3
SimulationResultUnits2(frame, strat, tot_invested, tot_units, ledger) ==
    LET final_nav       == frame[Len(frame)].nav
        final_value     == RMul(tot_units, final_nav)
        absolute_return == RSub(final_value, tot_invested)
    IN  [strategy        |-> strat,
         total_invested  |-> Round(tot_invested, 2),
         total_units     |-> Round(tot_units, 2),
         final_nav       |-> Round(final_nav, 2),
         final_value     |-> Round(final_value, 2),
         absolute_return |-> Round(absolute_return, 2),
         return_percent  |-> Round(ReturnPercent(absolute_return, tot_invested), 2),
         cagr            |-> Cagr(final_value, tot_invested, frame),
         num_investments |-> Len(ledger),
         investments     |-> ledger]

\* lines 141-162: the returned dictionary
SimulationResult(frame, strat, tot_invested, tot_units, ledger) ==
    LET final_nav       == FinalNav(frame)
        final_value     == RMul(tot_units, final_nav)
        absolute_return == RSub(final_value, tot_invested)
    IN  [strategy        |-> strat,
         total_invested  |-> Round(tot_invested, 2),
         total_units     |-> Round(tot_units, 3),
         final_nav       |-> Round(final_nav, 2),
         final_value     |-> Round(final_value, 2),
         absolute_return |-> Round(absolute_return, 2),
         return_percent  |-> Round(ReturnPercent(absolute_return, tot_invested), 2),
         cagr            |-> Cagr(final_value, tot_invested, frame),
         num_investments |-> Len(ledger),
         investments     |-> ledger]

----------------------------------------------------------------------------
(* calculate_rolling_returns                                               *)

\* faulty variant: the window is not cut at its start, all contributions before
\* index i are summed
RollingPointFromStart(inv, i, window) ==
    LET window_end    == i
        slice         == SubSeq(inv, 1, window_end)
        invested      == RSum([k \in 1..Len(slice) |-> slice[k].amount])
        units         == RSum([k \in 1..Len(slice) |-> slice[k].units])
        current_nav   == inv[window_end].nav
        current_value == RMul(units, current_nav)
        returns       == IF RGt(invested, Zero)
                         THEN RMul(RDiv(RSub(current_value, invested), invested), Q(100))
                         ELSE Zero
    IN  [date           |-> inv[window_end].date,
         invested       |-> invested,
         value          |-> current_value,
         return_percent |-> returns]

\* lines 183-199: the point appended for loop index i (0-based, as in the code)
RollingPoint(inv, i, window) ==
    LET window_start  == i - window
        window_end    == i
        slice         == SubSeq(inv, window_start + 1, window_end)
        invested      == RSum([k \in 1..Len(slice) |-> slice[k].amount])
        units         == RSum([k \in 1..Len(slice) |-> slice[k].units])
        current_nav   == inv[window_end].nav
        current_value == RMul(units, current_nav)
        returns       == IF RGt(invested, Zero)
                         THEN RMul(RDiv(RSub(current_value, invested), invested), Q(100))
                         ELSE Zero
    IN  [date           |-> inv[window_end].date,
         invested       |-> invested,
         value          |-> current_value,
         return_percent |-> returns]

\* line 183: range(window_months, len(inv_df))
RollingRange(inv, window) == {i \in window..(Len(inv) - 1) : TRUE}

\* the whole function: one point per index of the range, ascending
calculate_rolling_returns(inv, window) ==
    [k \in 1..Cardinality(RollingRange(inv, window)) |->
        RollingPoint(inv, window + k - 1, window)]

----------------------------------------------------------------------------
(* Bounds and inputs.                                                      *)

\* longest history whose records are drawn freely from RawRecords
MaxLen == 3

\* number of months of the long monthly histories
LongLen == 14

\* longest ledger and largest free window given to calculate_rolling_returns
MaxContribs == 15

MaxWindow == 3

\* window_months=12 as compare_strategies passes it
WindowMonths == 12

Strategies == {"regular", "enhanced"}

BaseAmounts == {0, 1000}

RawDates == {<<1, 1, 2024>>, <<15, 1, 2024>>, <<1, 3, 2024>>}

RawNavs == {"240", "243", "250"}

RawRecords == [date : RawDates, nav : RawNavs]

ShortHistories == UNION {[1..n -> RawRecords] : n \in 0..MaxLen}

\* the series (Jan 1, 100), (Feb 1, 97), (Mar 1, 103), newest record first
ScenarioHistory ==
    <<[date |-> <<1, 3, 2024>>, nav |-> "103"],
      [date |-> <<1, 2, 2024>>, nav |-> "97"],
      [date |-> <<1, 1, 2024>>, nav |-> "100"]>>

\* histories with a record that does not parse
MalformedHistories ==
    {<<[date |-> <<31, 2, 2024>>, nav |-> "240"]>>,
     <<[date |-> <<1, 3, 2024>>, nav |-> "N.A."], [date |-> <<1, 1, 2024>>, nav |-> "240"]>>}

Patterns == {<<"250", "243", "240">>, <<"240", "250">>, <<"243">>}

\* n monthly records from January 2024 on, the first of each month, the NAVs
\* cycling through the pattern, newest record first
LongHistory(pattern, n) ==
    [j \in 1..n |->
        LET k == n - j
        IN  [date |-> <<1, (k % 12) + 1, 2024 + (k \div 12)>>,
             nav  |-> pattern[(k % Len(pattern)) + 1]]]

LongHistories == {LongHistory(p, LongLen) : p \in Patterns}

Histories == ShortHistories \cup {ScenarioHistory} \cup MalformedHistories \cup LongHistories

HasDuplicateDates(hist) ==
    \E a, b \in 1..Len(hist) : a # b /\ hist[a].date = hist[b].date

----------------------------------------------------------------------------
(* State.                                                                  *)

VARIABLES
    pc,                \* control point
    history,           \* what fetcher.get_nav_history returned
    base_amount,
    sort_kind,         \* how the platform's sort orders equal dates
    df,                \* compare_strategies' frame
    strategy,          \* simulate_sip's arguments and locals
    sim_df,
    periods,           \* the groups the loop has still to visit
    total_invested,
    total_units,
    investments,
    regular_results,   \* compare_strategies' locals
    enhanced_results,
    regular_rolling,
    enhanced_rolling,
    ret,               \* what compare_strategies gave its caller
    current_nav,       \* calculate_enhanced_multiplier's arguments and result
    previous_nav,
    nav_change,
    multiplier,
    inv_df,            \* calculate_rolling_returns' arguments and locals
    window_months,
    i,
    rolling_returns,
    drop_threshold,    \* find_best_investment_dates' argument and locals
    trends,
    opportunities,
    results,
    find_ret,          \* what find_best_investment_dates gave its caller
    run,               \* which of two successive simulate_sip calls is running
    first_result,      \* what the two calls returned
    second_result

vars ==
    <<pc, history, base_amount, sort_kind, df, strategy, sim_df, periods,
      total_invested, total_units, investments, regular_results, enhanced_results,
      regular_rolling, enhanced_rolling, ret, current_nav, previous_nav, nav_change,
      multiplier, inv_df, window_months, i, rolling_returns, drop_threshold, trends,
      opportunities, results, find_ret, run, first_result, second_result>>

compareVars ==
    <<history, base_amount, sort_kind, df, strategy, sim_df, periods,
      total_invested, total_units, investments, regular_results, enhanced_results,
      regular_rolling, enhanced_rolling, ret>>

multVars == <<current_nav, previous_nav, nav_change, multiplier>>

rollVars == <<inv_df, window_months, i, rolling_returns>>

findVars == <<drop_threshold, trends, opportunities, results, find_ret>>

twiceVars == <<run, first_result, second_result>>

NoResult == [strategy |-> "none"]

Pending == [kind |-> "pending"]

CompareIdle ==
    /\ history = <<>>
    /\ base_amount = 0
    /\ sort_kind = "stable"
    /\ df = EmptyFrame
    /\ strategy = "none"
    /\ sim_df = EmptyFrame
    /\ periods = <<>>
    /\ total_invested = Zero
    /\ total_units = Zero
    /\ investments = <<>>
    /\ regular_results = NoResult
    /\ enhanced_results = NoResult
    /\ regular_rolling = <<>>
    /\ enhanced_rolling = <<>>
    /\ ret = Pending

MultIdle ==
    /\ current_nav = NaN
    /\ previous_nav = NaN
    /\ nav_change = NaN
    /\ multiplier = NaN

RollIdle ==
    /\ inv_df = <<>>
    /\ window_months = 0
    /\ i = 0
    /\ rolling_returns = <<>>

FindIdle ==
    /\ drop_threshold = NaN
    /\ trends = EmptyFrame
    /\ opportunities = <<>>
    /\ results = <<>>
    /\ find_ret = Pending

TwiceIdle ==
    /\ run = 0
    /\ first_result = NoResult
    /\ second_result = NoResult

----------------------------------------------------------------------------
(* compare_strategies, with the calls it makes.                            *)

Init ==
    /\ pc = "start"
    /\ history \in Histories
    /\ base_amount \in BaseAmounts
    /\ sort_kind \in (IF HasDuplicateDates(history) THEN SortKinds ELSE {"stable"})
    /\ df = EmptyFrame
    /\ strategy = "none"
    /\ sim_df = EmptyFrame
    /\ periods = <<>>
    /\ total_invested = Zero
    /\ total_units = Zero
    /\ investments = <<>>
    /\ regular_results = NoResult
    /\ enhanced_results = NoResult
    /\ regular_rolling = <<>>
    /\ enhanced_rolling = <<>>
    /\ ret = Pending
    /\ MultIdle
    /\ RollIdle
    /\ FindIdle
    /\ TwiceIdle

\* line 222: df = self.get_historical_data(scheme_code, days).  An exception of
\* the parse leaves get_historical_data and compare_strategies, which catch nothing.
GetHistoricalData ==
    /\ pc = "start"
    /\ IF history = <<>>
       THEN /\ df' = EmptyFrame
            /\ pc' = "fetched"
            /\ ret' = ret
       ELSE IF ~HistoryParses(history)
       THEN /\ df' = df
            /\ pc' = "done"
            /\ ret' = [kind |-> "raised", error |-> "ValueError"]
       ELSE /\ df' = PrepareFrame(history, sort_kind)
            /\ pc' = "fetched"
            /\ ret' = ret
    /\ UNCHANGED <<history, base_amount, sort_kind, strategy, sim_df, periods,
                   total_invested, total_units, investments, regular_results,
                   enhanced_results, regular_rolling, enhanced_rolling>>
    /\ UNCHANGED <<multVars, rollVars, findVars, twiceVars>>

\* faulty variant: an empty frame is answered with a comparison of no results
ReturnEmptyDegraded ==
    /\ pc = "fetched"
    /\ df = EmptyFrame
    /\ ret' = [kind |-> "dict", regular |-> regular_results, enhanced |-> enhanced_results]
    /\ pc' = "done"
    /\ UNCHANGED <<history, base_amount, sort_kind, df, strategy, sim_df, periods,
                   total_invested, total_units, investments, regular_results,
                   enhanced_results, regular_rolling, enhanced_rolling>>
    /\ UNCHANGED <<multVars, rollVars, findVars, twiceVars>>

\* lines 224-226: if df.empty: print(...); return {}
ReturnEmpty ==
    /\ pc = "fetched"
    /\ df = EmptyFrame
    /\ ret' = [kind |-> "empty_dict"]
    /\ pc' = "done"
    /\ UNCHANGED <<history, base_amount, sort_kind, df, strategy, sim_df, periods,
                   total_invested, total_units, investments, regular_results,
                   enhanced_results, regular_rolling, enhanced_rolling>>
    /\ UNCHANGED <<multVars, rollVars, findVars, twiceVars>>

\* lines 234 and 238 call simulate_sip; lines 91-96 start it
SimulateBegin ==
    /\ \/ pc = "fetched" /\ df # EmptyFrame /\ strategy' = "regular"
       \/ pc = "regular_done" /\ strategy' = "enhanced"
    /\ sim_df' = SimulateFrames(df).local
    /\ df' = SimulateFrames(df).caller
    /\ periods' = GroupKeys(SimulateFrames(df).local)
    /\ total_invested' = Zero
    /\ total_units' = Zero
    /\ investments' = <<>>
    /\ pc' = "sim_loop"
    /\ UNCHANGED <<history, base_amount, sort_kind, regular_results, enhanced_results,
                   regular_rolling, enhanced_rolling, ret>>
    /\ UNCHANGED <<multVars, rollVars, findVars, twiceVars>>

\* lines 99-139: one pass of the loop over the groups.  A group of groupby is
\* never empty, so the continue of line 104 is never taken.
SimulateStep ==
    /\ pc = "sim_loop"
    /\ periods # <<>>
    /\ LET invest_row == InvestRow(sim_df, Head(periods), sort_kind)
           inv        == Investment(invest_row, base_amount, strategy,
                                    total_units, total_invested)
       IN  /\ total_invested' = inv.total_invested
           /\ total_units' = inv.total_units
           /\ investments' = Append(investments, inv)
    /\ periods' = Tail(periods)
    /\ UNCHANGED <<pc, history, base_amount, sort_kind, df, strategy, sim_df,
                   regular_results, enhanced_results, regular_rolling,
                   enhanced_rolling, ret>>
    /\ UNCHANGED <<multVars, rollVars, findVars, twiceVars>>

\* lines 141-162, and the assignment of the result at lines 234 / 238
SimulateEnd ==
    /\ pc = "sim_loop"
    /\ periods = <<>>
    /\ LET result == SimulationResult(sim_df, strategy, total_invested, total_units,
                                      investments)
       IN  IF strategy = "regular"
           THEN /\ regular_results' = result
                /\ enhanced_results' = enhanced_results
                /\ pc' = "regular_done"
           ELSE /\ enhanced_results' = result
                /\ regular_results' = regular_results
                /\ pc' = "rolling_regular"
    /\ UNCHANGED <<history, base_amount, sort_kind, df, strategy, sim_df, periods,
                   total_invested, total_units, investments, regular_rolling,
                   enhanced_rolling, ret>>
    /\ UNCHANGED <<multVars, rollVars, findVars, twiceVars>>

\* lines 241-246: the two calls of calculate_rolling_returns
RollingReturns ==
    /\ IF pc = "rolling_regular"
       THEN /\ regular_rolling' =
                   calculate_rolling_returns(regular_results.investments, WindowMonths)
            /\ enhanced_rolling' = enhanced_rolling
            /\ pc' = "rolling_enhanced"
       ELSE /\ pc = "rolling_enhanced"
            /\ enhanced_rolling' =
                   calculate_rolling_returns(enhanced_results.investments, WindowMonths)
            /\ regular_rolling' = regular_rolling
            /\ pc' = "return"
    /\ UNCHANGED <<history, base_amount, sort_kind, df, strategy, sim_df, periods,
                   total_invested, total_units, investments, regular_results,
                   enhanced_results, ret>>
    /\ UNCHANGED <<multVars, rollVars, findVars, twiceVars>>

\* lines 263-283
ComparisonResult(regular, enhanced, reg_rolling, enh_rolling) ==
    [kind               |-> "dict",
     regular            |-> regular,
     enhanced           |-> enhanced,
     regular_rolling    |-> reg_rolling,
     enhanced_rolling   |-> enh_rolling,
     outperformance     |-> RSub(enhanced.absolute_return, regular.absolute_return),
     outperformance_pct |-> RSub(enhanced.return_percent, regular.return_percent)]

ReturnComparison ==
    /\ pc = "return"
    /\ ret' = ComparisonResult(regular_results, enhanced_results,
                               regular_rolling, enhanced_rolling)
    /\ pc' = "done"
    /\ UNCHANGED <<history, base_amount, sort_kind, df, strategy, sim_df, periods,
                   total_invested, total_units, investments, regular_results,
                   enhanced_results, regular_rolling, enhanced_rolling>>
    /\ UNCHANGED <<multVars, rollVars, findVars, twiceVars>>

Next ==
    \/ GetHistoricalData
    \/ ReturnEmpty
    \/ SimulateBegin
    \/ SimulateStep
    \/ SimulateEnd
    \/ RollingReturns
    \/ ReturnComparison

Spec == Init /\ [][Next]_vars

----------------------------------------------------------------------------
(* calculate_enhanced_multiplier on its own.                               *)

MultNavs == {Q(97), Q(98), Q(100), Q(102), Q(103)}

MultChanges ==
    {Norm(-7, 2), Q(-3), Norm(-5, 2), Q(-2), Norm(-3, 2), Q(-1), Norm(-1, 2),
     Q(0), Q(1), Q(3)}

InitMult ==
    /\ pc = "mult_call"
    /\ current_nav \in MultNavs
    /\ previous_nav \in MultNavs
    /\ nav_change \in MultChanges
    /\ multiplier = NaN
    /\ CompareIdle
    /\ RollIdle
    /\ FindIdle
    /\ TwiceIdle

CalculateMultiplier ==
    /\ pc = "mult_call"
    /\ multiplier' = calculate_enhanced_multiplier(current_nav, previous_nav, nav_change)
    /\ pc' = "mult_done"
    /\ UNCHANGED <<current_nav, previous_nav, nav_change>>
    /\ UNCHANGED <<compareVars, rollVars, findVars, twiceVars>>

NextMult == CalculateMultiplier

SpecMult == InitMult /\ [][NextMult]_vars

----------------------------------------------------------------------------
(* calculate_rolling_returns on its own, on the ledgers simulate_sip makes. *)

\* the ledger simulate_sip builds over the groups still to visit
RECURSIVE LedgerFrom(_, _, _, _, _, _)
LedgerFrom(frame, keys, base, strat, kind, ledger) ==
    IF keys = <<>> THEN ledger
    ELSE LET tot_units    == IF ledger = <<>> THEN Zero
                             ELSE ledger[Len(ledger)].total_units
             tot_invested == IF ledger = <<>> THEN Zero
                             ELSE ledger[Len(ledger)].total_invested
             inv == Investment(InvestRow(frame, Head(keys), kind), base, strat,
                               tot_units, tot_invested)
         IN  LedgerFrom(frame, Tail(keys), base, strat, kind, Append(ledger, inv))

Ledger(hist, base, strat) ==
    LET frame == SimulateFrames(PrepareFrame(hist, "stable")).local
    IN  LedgerFrom(frame, GroupKeys(frame), base, strat, "stable", <<>>)

LedgerInputs ==
    {Ledger(LongHistory(p, n), b, s) :
        p \in Patterns, n \in 1..MaxContribs, b \in BaseAmounts, s \in Strategies}

Windows == (1..MaxWindow) \cup {WindowMonths}

InitRolling ==
    /\ pc = "roll_loop"
    /\ inv_df \in LedgerInputs
    /\ window_months \in Windows
    /\ i = window_months
    /\ rolling_returns = <<>>
    /\ CompareIdle
    /\ MultIdle
    /\ FindIdle
    /\ TwiceIdle

\* lines 183-199: one pass of the loop
RollingStep ==
    /\ pc = "roll_loop"
    /\ i \in RollingRange(inv_df, window_months)
    /\ rolling_returns' = Append(rolling_returns, RollingPoint(inv_df, i, window_months))
    /\ i' = i + 1
    /\ UNCHANGED <<pc, inv_df, window_months>>
    /\ UNCHANGED <<compareVars, multVars, findVars, twiceVars>>

\* line 201
RollingReturn ==
    /\ pc = "roll_loop"
    /\ i \notin RollingRange(inv_df, window_months)
    /\ pc' = "roll_done"
    /\ UNCHANGED <<inv_df, window_months, i, rolling_returns>>
    /\ UNCHANGED <<compareVars, multVars, findVars, twiceVars>>

NextRolling == RollingStep \/ RollingReturn

SpecRolling == InitRolling /\ [][NextRolling]_vars

----------------------------------------------------------------------------
(* src/enhanced_sip.py: analyze_nav_trends and find_best_investment_dates. *)

\* df['nav'].rolling(window=w).std() at row i: the sample standard deviation is
\* a square root; it is kept as <<n, d, 2>>, the root of the sample variance n/d
RollingStd(rows, at, w) ==
    IF at < w THEN NaN
    ELSE LET mean == RollingMean(rows, at, w)
             sq   == [k \in 1..w |->
                        RMul(RSub(rows[at - w + k].nav, mean),
                             RSub(rows[at - w + k].nav, mean))]
             var  == RDiv(RSum(sq), Q(w - 1))
         IN  <<var[1], var[2], 2>>

\* lines 33-49 of analyze_nav_trends: the frame of a non-empty, well-formed history
AnalyzeFrame(hist, kind) ==
    LET parsed == [k \in 1..Len(hist) |->
                     [date |-> ToDatetime(hist[k].date),
                      nav  |-> NumericValue(hist[k].nav)]]
        sorted == SortByDate(parsed, kind)
    IN  [k \in 1..Len(sorted) |->
           [date                |-> sorted[k].date,
            nav                 |-> sorted[k].nav,
            nav_change          |-> PctChange(sorted, k),
            nav_ma_7            |-> RollingMean(sorted, k, 7),
            nav_ma_30           |-> RollingMean(sorted, k, 30),
            volatility          |-> RollingStd(sorted, k, 7),
            is_significant_drop |-> RLt(PctChange(sorted, k), Q(-1)),
            is_below_ma         |-> RLt(sorted[k].nav, RollingMean(sorted, k, 30))]]

\* line 71: df[df['nav_change'] <= drop_threshold]; a NaN change compares False
FilterOpportunities(frame, threshold) ==
    SelectSeq(frame, LAMBDA r : RLe(r.nav_change, threshold))

\* line 74: opportunities['opportunity_score'] = abs(opportunities['nav_change'])
WithScore(rows) ==
    [k \in 1..Len(rows) |->
        [date              |-> rows[k].date,
         nav               |-> rows[k].nav,
         nav_change        |-> rows[k].nav_change,
         nav_ma_30         |-> rows[k].nav_ma_30,
         opportunity_score |-> <<Abs(rows[k].nav_change[1]), rows[k].nav_change[2]>>]]

\* line 77: sort_values('opportunity_score', ascending=False).  As for the dates,
\* the default sort kind fixes the order of equal scores only per platform:
\* "stable" keeps them in frame order, "reverse" turns them round.
RECURSIVE InsertByScore(_, _, _)
InsertByScore(sorted, row, kind) ==
    IF sorted = <<>> THEN <<row>>
    ELSE IF \/ RGt(row.opportunity_score, Head(sorted).opportunity_score)
            \/ (kind = "reverse" /\ row.opportunity_score = Head(sorted).opportunity_score)
         THEN <<row>> \o sorted
         ELSE <<Head(sorted)>> \o InsertByScore(Tail(sorted), row, kind)

RECURSIVE SortByScoreFrom(_, _, _)
SortByScoreFrom(sorted, rest, kind) ==
    IF rest = <<>> THEN sorted
    ELSE SortByScoreFrom(InsertByScore(sorted, Head(rest), kind), Tail(rest), kind)

\* faulty variant: the scores are sorted ascending
SortByScoreAscending(rows, kind) ==
    LET desc == SortByScoreFrom(<<>>, rows, kind)
    IN  [k \in 1..Len(desc) |-> desc[Len(desc) + 1 - k]]

SortByScore(rows, kind) == SortByScoreFrom(<<>>, rows, kind)

\* lines 94-103
GetRecommendation(score) ==
    IF RLe(Q(3), score) THEN "Excellent - Invest 150-200% of regular SIP"
    ELSE IF RLe(Q(2), score) THEN "Very Good - Invest 125-150% of regular SIP"
    ELSE IF RLe(Norm(3, 2), score) THEN "Good - Invest 110-125% of regular SIP"
    ELSE "Moderate - Invest regular SIP amount"

\* row['date'].strftime('%d-%m-%Y'): the string <<DD, MM, YYYY>>
Strftime(t) == <<t[3], t[2], t[1]>>

\* Python's None
None == <<>>

\* lines 83-90: the dictionary appended for one row
Opportunity(row) ==
    [date               |-> Strftime(row.date),
     nav                |-> Round(row.nav, 2),
     nav_change_percent |-> Round(row.nav_change, 2),
     nav_30day_avg      |-> IF NotNa(row.nav_ma_30) THEN Round(row.nav_ma_30, 2) ELSE None,
     opportunity_score  |-> Round(row.opportunity_score, 2),
     recommendation     |-> GetRecommendation(row.opportunity_score)]

FindThresholds == {Q(-1), Q(-2), Norm(-14, 5)}

InitFind ==
    /\ pc = "find_start"
    /\ history \in Histories
    /\ sort_kind \in SortKinds
    /\ drop_threshold \in FindThresholds
    /\ trends = EmptyFrame
    /\ opportunities = <<>>
    /\ results = <<>>
    /\ find_ret = Pending
    /\ base_amount = 0
    /\ df = EmptyFrame
    /\ strategy = "none"
    /\ sim_df = EmptyFrame
    /\ periods = <<>>
    /\ total_invested = Zero
    /\ total_units = Zero
    /\ investments = <<>>
    /\ regular_results = NoResult
    /\ enhanced_results = NoResult
    /\ regular_rolling = <<>>
    /\ enhanced_rolling = <<>>
    /\ ret = Pending
    /\ MultIdle
    /\ RollIdle
    /\ TwiceIdle

findFixed ==
    <<history, base_amount, sort_kind, df, strategy, sim_df, periods, total_invested,
      total_units, investments, regular_results, enhanced_results, regular_rolling,
      enhanced_rolling, ret, drop_threshold>>

\* line 65: df = self.analyze_nav_trends(scheme_code, days); an exception of the
\* parse leaves both functions
AnalyzeNavTrends ==
    /\ pc = "find_start"
    /\ IF history = <<>>
       THEN /\ trends' = EmptyFrame
            /\ pc' = "find_analyzed"
            /\ find_ret' = find_ret
       ELSE IF ~HistoryParses(history)
       THEN /\ trends' = trends
            /\ pc' = "find_done"
            /\ find_ret' = [kind |-> "raised", error |-> "ValueError"]
       ELSE /\ trends' = AnalyzeFrame(history, sort_kind)
            /\ pc' = "find_analyzed"
            /\ find_ret' = find_ret
    /\ UNCHANGED <<opportunities, results>>
    /\ UNCHANGED <<findFixed, multVars, rollVars, twiceVars>>

\* lines 67-68: if df.empty: return []
FindReturnNothing ==
    /\ pc = "find_analyzed"
    /\ trends = EmptyFrame
    /\ find_ret' = [kind |-> "list", items |-> <<>>]
    /\ pc' = "find_done"
    /\ UNCHANGED <<trends, opportunities, results>>
    /\ UNCHANGED <<findFixed, multVars, rollVars, twiceVars>>

\* lines 71-80
FindOpportunities ==
    /\ pc = "find_analyzed"
    /\ trends # EmptyFrame
    /\ opportunities' =
          SortByScore(WithScore(FilterOpportunities(trends, drop_threshold)), sort_kind)
    /\ results' = <<>>
    /\ pc' = "find_loop"
    /\ UNCHANGED <<trends, find_ret>>
    /\ UNCHANGED <<findFixed, multVars, rollVars, twiceVars>>

\* lines 82-90: one pass of the loop over opportunities.iterrows()
FindAppend ==
    /\ pc = "find_loop"
    /\ Len(results) < Len(opportunities)
    /\ results' = Append(results, Opportunity(opportunities[Len(results) + 1]))
    /\ UNCHANGED <<pc, trends, opportunities, find_ret>>
    /\ UNCHANGED <<findFixed, multVars, rollVars, twiceVars>>

\* line 92
FindReturn ==
    /\ pc = "find_loop"
    /\ Len(results) = Len(opportunities)
    /\ find_ret' = [kind |-> "list", items |-> results]
    /\ pc' = "find_done"
    /\ UNCHANGED <<trends, opportunities, results>>
    /\ UNCHANGED <<findFixed, multVars, rollVars, twiceVars>>

NextFind ==
    \/ AnalyzeNavTrends
    \/ FindReturnNothing
    \/ FindOpportunities
    \/ FindAppend
    \/ FindReturn

SpecFind == InitFind /\ [][NextFind]_vars

----------------------------------------------------------------------------
(* Two successive calls of simulate_sip on one prepared frame, with the     *)
(* same base amount and strategy.                                           *)

PreparedHistories == {h \in Histories : h # <<>> /\ HistoryParses(h)}

InitTwice ==
    /\ pc = "twice_call"
    /\ history \in PreparedHistories
    /\ sort_kind \in SortKinds
    /\ base_amount \in BaseAmounts
    /\ strategy \in Strategies
    /\ df = PrepareFrame(history, sort_kind)
    /\ sim_df = EmptyFrame
    /\ periods = <<>>
    /\ total_invested = Zero
    /\ total_units = Zero
    /\ investments = <<>>
    /\ regular_results = NoResult
    /\ enhanced_results = NoResult
    /\ regular_rolling = <<>>
    /\ enhanced_rolling = <<>>
    /\ ret = Pending
    /\ run = 1
    /\ first_result = NoResult
    /\ second_result = NoResult
    /\ MultIdle
    /\ RollIdle
    /\ FindIdle

\* a simulator whose totals and ledger outlive the call
TwiceBeginKeepsTotals ==
    /\ pc = "twice_call"
    /\ sim_df' = SimulateFrames(df).local
    /\ df' = SimulateFrames(df).caller
    /\ periods' = GroupKeys(SimulateFrames(df).local)
    /\ pc' = "sim_loop"
    /\ UNCHANGED <<total_invested, total_units, investments>>
    /\ UNCHANGED <<history, base_amount, sort_kind, strategy, regular_results,
                   enhanced_results, regular_rolling, enhanced_rolling, ret>>
    /\ UNCHANGED <<multVars, rollVars, findVars, twiceVars>>

\* lines 91-96: the copy of the frame, its month column, and the locals
\* total_invested, total_units and investments, created anew by every call
TwiceBegin ==
    /\ pc = "twice_call"
    /\ sim_df' = SimulateFrames(df).local
    /\ df' = SimulateFrames(df).caller
    /\ periods' = GroupKeys(SimulateFrames(df).local)
    /\ total_invested' = Zero
    /\ total_units' = Zero
    /\ investments' = <<>>
    /\ pc' = "sim_loop"
    /\ UNCHANGED <<history, base_amount, sort_kind, strategy, regular_results,
                   enhanced_results, regular_rolling, enhanced_rolling, ret>>
    /\ UNCHANGED <<multVars, rollVars, findVars, twiceVars>>

\* lines 141-162: the result of the call, kept by the caller
TwiceEnd ==
    /\ pc = "sim_loop"
    /\ periods = <<>>
    /\ LET result == SimulationResult(sim_df, strategy, total_invested, total_units,
                                      investments)
       IN  IF run = 1
           THEN /\ first_result' = result
                /\ second_result' = second_result
                /\ run' = 2
                /\ pc' = "twice_call"
           ELSE /\ second_result' = result
                /\ first_result' = first_result
                /\ run' = 3
                /\ pc' = "twice_done"
    /\ UNCHANGED compareVars
    /\ UNCHANGED <<multVars, rollVars, findVars>>

NextTwice ==
    \/ TwiceBegin
    \/ SimulateStep
    \/ TwiceEnd

SpecTwice == InitTwice /\ [][NextTwice]_vars

----------------------------------------------------------------------------
(* Properties.                                                             *)

\* the simulation results compare_strategies holds so far
Results == {r \in {regular_results, enhanced_results} : r # NoResult}

Last(s) == s[Len(s)]

Max(a, b) == IF a > b THEN a ELSE b

Amounts(ledger) == [k \in 1..Len(ledger) |-> ledger[k].amount]

Units(ledger) == [k \in 1..Len(ledger) |-> ledger[k].units]

\* the year and month of a date
YearMonth(t) == <<t[1], t[2]>>

\* the months with at least one point of the prepared series
MonthsOf(frame) == {YearMonth(frame[k].date) : k \in 1..Len(frame)}

\* the multiplier table of the specification, over integers:
\* change = n/d with d > 0, price = a/b, previous price = p/q
SpecLadder(price, prev, change) ==
    IF change[1] <= (-3) * change[2] THEN <<2, 1>>
    ELSE IF change[1] <= (-2) * change[2] THEN <<3, 2>>
    ELSE IF change[1] <= (-1) * change[2] THEN <<5, 4>>
    ELSE IF 100 * price[1] * prev[2] < 98 * prev[1] * price[2] THEN <<23, 20>>
    ELSE IF 100 * price[1] * prev[2] > 102 * prev[1] * price[2] THEN <<17, 20>>
    ELSE <<1, 1>>

C2_LadderFirstMatch ==
    pc = "mult_done" =>
        /\ multiplier = SpecLadder(current_nav, previous_nav, nav_change)
        /\ (nav_change = <<-7, 2>> => multiplier = <<2, 1>>)

\* change -3.5 with a price more than 2% under the previous price
C2_Witness ==
    /\ pc = "mult_done"
    /\ nav_change = <<-7, 2>>
    /\ current_nav = <<97, 1>>
    /\ previous_nav = <<100, 1>>
    /\ multiplier = <<2, 1>>

\* C3: every contribution of the fixed strategy is the base amount; every
\* contribution of the variable strategy is the base amount times the table
\* applied to the point's change, with the previous price price/(1+change/100),
\* and times 1.0 at the first point of the series, whose change is undefined.
\* For (Jan 1, 100), (Feb 1, 97), (Mar 1, 103) and base 1000 the variable
\* amounts are 1000, 2000, 850 and the fixed ones 1000, 1000, 1000.
C3_Amounts ==
    /\ regular_results # NoResult =>
          /\ \A k \in 1..Len(regular_results.investments) :
                regular_results.investments[k].amount = <<base_amount, 1>>
          /\ (history = ScenarioHistory /\ base_amount = 1000) =>
                Amounts(regular_results.investments) = <<<<1000, 1>>, <<1000, 1>>, <<1000, 1>>>>
    /\ enhanced_results # NoResult =>
          /\ \A k \in 1..Len(enhanced_results.investments) :
                LET c == enhanced_results.investments[k]
                IN  c.amount =
                          RMul(<<base_amount, 1>>,
                               IF c.nav_change = NaN THEN <<1, 1>>
                               ELSE SpecLadder(c.nav,
                                               RDiv(c.nav, RAdd(<<1, 1>>,
                                                          RDiv(c.nav_change, <<100, 1>>))),
                                               c.nav_change))
          /\ (history = ScenarioHistory /\ base_amount = 1000) =>
                Amounts(enhanced_results.investments) = <<<<1000, 1>>, <<2000, 1>>, <<850, 1>>>>

\* both runs over the three-point series with base 1000 are finished
C3_Witness ==
    /\ history = ScenarioHistory
    /\ base_amount = 1000
    /\ regular_results # NoResult
    /\ enhanced_results # NoResult
    /\ Len(enhanced_results.investments) = 3

\* C4 as stated: the reported total_units is exactly the sum of the units of the
\* ledger.
C4_ReportedUnitsAreExactSum ==
    \A r \in Results : r.total_units = RSumLeft(Zero, Units(r.investments))

\* C4 amended: the reported total_units is the sum of the units of the ledger
\* rounded to 3 decimals; the unrounded sum is the cumulative total_units of the
\* last contribution.
C4_ReportedUnitsAreRoundedSum ==
    \A r \in Results :
        /\ r.total_units = Round(RSumLeft(Zero, Units(r.investments)), 3)
        /\ Last(r.investments).total_units = RSumLeft(Zero, Units(r.investments))

\* a finished run whose sum of units has more than 3 decimals
C4_Witness ==
    \E r \in Results :
        /\ Len(r.investments) >= 2
        /\ r.total_units # RSumLeft(Zero, Units(r.investments))

\* the ledger: dates ascending, cumulative fields the running sums, and with a
\* positive base amount no cumulative field below the one before
LedgerInOrder(ledger) ==
    \A k \in 1..Len(ledger) :
        /\ ledger[k].total_units = RSumLeft(Zero, SubSeq(Units(ledger), 1, k))
        /\ ledger[k].total_invested = RSumLeft(Zero, SubSeq(Amounts(ledger), 1, k))
        /\ k > 1 =>
              /\ DateLt(ledger[k - 1].date, ledger[k].date)
              /\ base_amount > 0 =>
                    /\ RLe(ledger[k - 1].total_units, ledger[k].total_units)
                    /\ RLe(ledger[k - 1].total_invested, ledger[k].total_invested)

\* C5: throughout a run the ledger only grows at its end, its dates ascend, and
\* after each step its cumulative fields are the running sums of units and
\* amounts, which do not decrease when the base amount is positive.
C5_LedgerAccumulates ==
    /\ [](LedgerInOrder(investments))
    /\ [][(pc = "sim_loop" /\ pc' = "sim_loop") =>
             /\ Len(investments') = Len(investments) + 1
             /\ SubSeq(investments', 1, Len(investments)) = investments
             /\ total_units' = Last(investments').total_units
             /\ total_invested' = Last(investments').total_invested]_vars

\* the variable strategy in mid-run, three contributions made, base positive
C5_Witness ==
    /\ pc = "sim_loop"
    /\ strategy = "enhanced"
    /\ base_amount > 0
    /\ Len(investments) = 3
    /\ periods # <<>>

\* C6 as stated: the reported fields satisfy final_value = total_units x
\* final_nav and absolute_return = final_value - total_invested, final_nav
\* being the price of the last point of the series.
C6_ReportedFieldsExact ==
    \A r \in Results :
        /\ r.final_nav = df[Len(df)].nav
        /\ r.final_value = RMul(r.total_units, r.final_nav)
        /\ r.absolute_return = RSub(r.final_value, r.total_invested)

\* C6 amended: with U and I the unrounded cumulative units and amount of the
\* last contribution and P the price of the last, latest-dated point of the
\* series, the result reports final_nav = round(P, 2), final_value =
\* round(U x P, 2) and absolute_return = round(U x P - I, 2).
C6_ReportedFieldsRounded ==
    \A r \in Results :
        LET U == Last(r.investments).total_units
            I == Last(r.investments).total_invested
            P == df[Len(df)].nav
        IN  /\ \A j \in 1..Len(df) : ~DateLt(df[Len(df)].date, df[j].date)
            /\ r.final_nav = Round(P, 2)
            /\ r.final_value = Round(RMul(U, P), 2)
            /\ r.absolute_return = Round(RSub(RMul(U, P), I), 2)

\* a finished run whose last contribution is not at the last point of the
\* series and has another price
C6_Witness ==
    \E r \in Results :
        /\ Last(r.investments).date # df[Len(df)].date
        /\ Last(r.investments).nav # df[Len(df)].nav
        /\ Last(r.investments).total_units # Zero

\* C7: return_percent is 0 when total_invested is 0, CAGR is 0 when no time
\* elapsed between the first and the last date, and no reported ratio is
\* undefined: with total_invested 0 the CAGR is the fallback 0 as well.
C7_DivisionGuard ==
    \A r \in Results :
        /\ r.total_invested = Zero => r.return_percent = Zero
        /\ DaysBetween(df[1].date, df[Len(df)].date) <= 0 => r.cagr = Zero
        /\ r.cagr[2] # 0
        /\ r.return_percent[2] # 0
        /\ r.total_invested = Zero => r.cagr = Zero

RollingOf(ledger, rolling) ==
    /\ Len(rolling) = Max(0, Len(ledger) - 12)
    /\ \A k \in 1..Len(rolling) :
          /\ rolling[k].date = ledger[k + 11].date
          /\ rolling[k].invested = RSumLeft(Zero, SubSeq(Amounts(ledger), k, k + 11))
          /\ rolling[k].value =
                RMul(RSumLeft(Zero, SubSeq(Units(ledger), k, k + 11)), ledger[k + 11].nav)

\* C10: simulate_sip never changes the frame of compare_strategies, both runs
\* see the same points and base amount, and the comparison returned holds the
\* fixed and the variable result, the difference of their absolute returns and
\* of their return percents, and the rolling returns of each result's ledger.
C10_Comparison ==
    /\ [][pc # "start" => df' = df]_vars
    /\ [](ret.kind = "dict" =>
            /\ ret.regular = regular_results
            /\ ret.enhanced = enhanced_results
            /\ ret.regular.strategy = "regular"
            /\ ret.enhanced.strategy = "enhanced"
            /\ ret.outperformance =
                  RSub(ret.enhanced.absolute_return, ret.regular.absolute_return)
            /\ ret.outperformance_pct =
                  RSub(ret.enhanced.return_percent, ret.regular.return_percent)
            /\ RollingOf(ret.regular.investments, ret.regular_rolling)
            /\ RollingOf(ret.enhanced.investments, ret.enhanced_rolling)
            /\ Len(ret.regular.investments) = Len(ret.enhanced.investments)
            /\ \A k \in 1..Len(ret.regular.investments) :
                  /\ ret.regular.investments[k].date = ret.enhanced.investments[k].date
                  /\ ret.regular.investments[k].nav = ret.enhanced.investments[k].nav
                  /\ ret.regular.investments[k].amount = <<base_amount, 1>>
            /\ ret.regular.final_nav = ret.enhanced.final_nav)

\* a comparison with rolling returns and a difference between the strategies
C10_Witness ==
    /\ pc = "done"
    /\ ret.kind = "dict"
    /\ Len(ret.regular_rolling) > 0
    /\ ret.outperformance # Zero
    /\ ret.regular_rolling # ret.enhanced_rolling

\* C11: the prepared series is strictly ascending by date, so no two of its
\* points have the same date.
C11_StrictlyAscending ==
    (pc # "start" /\ df # EmptyFrame) =>
        \A k \in 1..(Len(df) - 1) : DateLt(df[k].date, df[k + 1].date)

\* the records of a history that parse
ValidRecords(hist) ==
    SelectSeq(hist, LAMBDA r : ValidDateString(r.date) /\ ValidNumericString(r.nav))

\* C13: with a record that does not parse, the prepared series is the one
\* prepared from the records that do; only when none does, preparation ends in
\* an error.
C13_MalformedRecordExcluded ==
    (pc # "start" /\ ~HistoryParses(history)) =>
        IF ValidRecords(history) # <<>>
        THEN /\ ret.kind # "raised"
             /\ df = PrepareFrame(ValidRecords(history), sort_kind)
        ELSE pc = "done" /\ ret.kind \in {"raised", "empty_dict"}

\* the multipliers the variable strategy can apply, the 1.15 row left out
SimulatorMultipliers == {<<2, 1>>, <<3, 2>>, <<5, 4>>, <<17, 20>>, <<1, 1>>}

VariableLedgers ==
    (IF enhanced_results # NoResult THEN {enhanced_results.investments} ELSE {})
        \cup (IF strategy = "enhanced" THEN {investments} ELSE {})

Qualifying(frame, threshold) ==
    SelectSeq(frame, LAMBDA r : /\ r.nav_change # NaN
                                /\ r.nav_change[1] * threshold[2]
                                      <= threshold[1] * r.nav_change[2])

\* max(0, -change)
DropMagnitude(change) == IF change[1] < 0 THEN <<-change[1], change[2]>> ELSE Zero

\* how many elements of a sequence have the date d
CountDate(seq, d) == Cardinality({k \in 1..Len(seq) : seq[k].date = d})

\* C12 as stated: the returned list holds exactly the qualifying points, each
\* with the score max(0, -change), in descending score order, equal scores in
\* ascending date order.
C12_ExactScoresStableTies ==
    find_ret.kind = "list" =>
        LET items == find_ret.items
            qual  == Qualifying(trends, drop_threshold)
        IN  /\ Len(items) = Len(qual)
            /\ \A k \in 1..Len(qual) :
                  CountDate(items, Strftime(qual[k].date)) = CountDate(qual, qual[k].date)
            /\ \A a \in 1..Len(items) :
                  \E k \in 1..Len(qual) :
                      /\ items[a].date = Strftime(qual[k].date)
                      /\ items[a].opportunity_score = DropMagnitude(qual[k].nav_change)
            /\ \A a, b \in 1..Len(items) :
                  a < b =>
                     /\ ~RLt(items[a].opportunity_score, items[b].opportunity_score)
                     /\ items[a].opportunity_score = items[b].opportunity_score =>
                           ~DateLt(ToDatetime(items[b].date), ToDatetime(items[a].date))

\* C12 amended: the returned list holds exactly the qualifying points, each with
\* the score max(0, -change) rounded to 2 decimals, in descending order of the
\* unrounded score; points of equal change are in ascending date order where the
\* platform's sort keeps equal keys in input order, and not otherwise promised.
C12_RoundedScoresSortedDescending ==
    pc \in {"find_loop", "find_done"} /\ find_ret.kind # "raised" /\ trends # EmptyFrame =>
        LET qual == Qualifying(trends, drop_threshold)
        IN  /\ Len(opportunities) = Len(qual)
            /\ \A k \in 1..Len(qual) :
                  CountDate(opportunities, qual[k].date) = CountDate(qual, qual[k].date)
            /\ \A k \in 1..Len(opportunities) :
                  \E j \in 1..Len(qual) :
                      /\ opportunities[k].date = qual[j].date
                      /\ opportunities[k].nav_change = qual[j].nav_change
            /\ Len(results) <= Len(opportunities)
            /\ \A k \in 1..Len(results) :
                  /\ results[k].date = Strftime(opportunities[k].date)
                  /\ results[k].opportunity_score =
                        Round(DropMagnitude(opportunities[k].nav_change), 2)
            /\ \A a, b \in 1..Len(opportunities) :
                  a < b =>
                     /\ ~RLt(DropMagnitude(opportunities[a].nav_change),
                             DropMagnitude(opportunities[b].nav_change))
                     /\ (/\ sort_kind = "stable"
                         /\ opportunities[a].nav_change = opportunities[b].nav_change) =>
                           ~DateLt(opportunities[b].date, opportunities[a].date)
            /\ pc = "find_done" => find_ret = [kind |-> "list", items |-> results]
            /\ pc = "find_done" => Len(results) = Len(opportunities)

\* a returned list with two points of equal score on different dates, a score
\* that rounding changed, and a point of the frame above the threshold left out
C12_Witness ==
    /\ find_ret.kind = "list"
    /\ \E a, b \in 1..Len(find_ret.items) :
          /\ a < b
          /\ find_ret.items[a].opportunity_score = find_ret.items[b].opportunity_score
          /\ find_ret.items[a].date # find_ret.items[b].date
    /\ \E a \in 1..Len(find_ret.items) :
          find_ret.items[a].opportunity_score
             # DropMagnitude(opportunities[a].nav_change)
    /\ \E k \in 1..Len(trends) :
          /\ trends[k].nav_change # NaN
          /\ RGt(trends[k].nav_change, drop_threshold)

====
